---- MODULE Spec2Model ----
(***************************************************************************)
(* CrosswordCreator (src/generate.py): node consistency, AC-3 and the      *)
(* backtracking search of solve(), as a state machine.                     *)
(*                                                                         *)
(* A word is a sequence of letters.  Python offsets are zero-based, so     *)
(* the letter i[a] of the code is i[a + 1] here.  A slot (Variable) is a   *)
(* number 1..n; slots are numbered in the iteration order of the set       *)
(* crossword.variables, which is fixed during a run, and every labelled    *)
(* graph is drawn, so every iteration order of every graph is covered.     *)
(***************************************************************************)
EXTENDS Integers, Sequences, FiniteSets, TLC

\* ---- bounds of the model ----
MaxSlots == 3
MaxLen == 2
MaxVocab == 3

Alphabet == {"a", "b"}

\* every word over Alphabet of length 1..MaxLen
Pool == UNION {[1..k -> Alphabet] : k \in 1..MaxLen}

VARIABLES
    crossword,   \* the puzzle: variables, length, overlaps, words (immutable)
    domains,     \* self.domains: slot -> set of words
    pc,          \* position inside solve() / the call under test
    arcs,        \* ac3's deque; Head is the right end (next pop), Append is appendleft
    ac3ret,      \* what ac3 returned: "pending", "True" or "False"
    domOrder,    \* iteration order of the set self.domains[s], fixed once search reads it
    assignment,  \* the dict handed through backtrack: sequence of <<slot, word>> in insertion order
    stack,       \* the active backtrack calls that are inside their for loop
    result,      \* what solve() returned
    rev,         \* the last revise call: arguments, domain before and after, returned value
    ret,         \* the last backtrack call that returned None: assignment at entry and at exit
    cres,        \* what consistent(assignment) gave when called on its own
    out          \* the last select_unassigned_variable / order_domain_values call made on its own

vars == <<crossword, domains, pc, arcs, ac3ret, domOrder, assignment, stack, result, rev, ret, cres, out>>

NoOverlap == <<>>

\* ---- the puzzle graph (crossword.py: Variable, Crossword) ----
Variables == crossword.variables

SlotLength(x) == crossword.length[x]

\* crossword.overlaps[x, y]: None or the pair of zero-based offsets (symmetric)
Overlaps(x, y) ==
    IF x < y THEN crossword.overlaps[<<x, y>>]
    ELSE LET o == crossword.overlaps[<<y, x>>]
         IN  IF o = NoOverlap THEN NoOverlap ELSE <<o[2], o[1]>>

\* crossword.neighbors(var)
Neighbors(var) == {v \in Variables : v # var /\ Overlaps(v, var) # NoOverlap}

PairsOf(n) == {p \in (1..n) \X (1..n) : p[1] < p[2]}

OffsetPairs == (0..(MaxLen - 1)) \X (0..(MaxLen - 1))

\* the overlap tables of n slots of the given lengths: offsets inside both words
OverlapTables(n, len) ==
    {o \in [PairsOf(n) -> {NoOverlap} \cup OffsetPairs] :
        \A p \in PairsOf(n) :
           o[p] # NoOverlap => (o[p][1] < len[p[1]] /\ o[p][2] < len[p[2]])}

\* the vocabularies the model draws
Vocabularies == {v \in SUBSET Pool : Cardinality(v) <= MaxVocab}

\* every ordering of a finite set, as sequences without repetition
Perms(S) == {q \in [1..Cardinality(S) -> S] : \A i, j \in 1..Cardinality(S) : q[i] = q[j] => i = j}

NoRev == [called |-> FALSE]
NoRet == [called |-> FALSE]
NoOut == [called |-> FALSE]

\* __init__: every slot starts with a copy of the whole vocabulary
Init ==
    /\ \E n \in 1..MaxSlots : \E len \in [1..n -> 1..MaxLen] :
          \E ov \in OverlapTables(n, len) : \E voc \in Vocabularies :
             crossword = [variables |-> 1..n, length |-> len, overlaps |-> ov, words |-> voc]
    /\ domains = [var \in crossword.variables |-> crossword.words]
    /\ pc = "node"
    /\ arcs = <<>>
    /\ ac3ret = "pending"
    /\ domOrder = [var \in crossword.variables |-> <<>>]
    /\ assignment = <<>>
    /\ stack = <<>>
    /\ result = [kind |-> "pending"]
    /\ rev = NoRev
    /\ ret = NoRet
    /\ cres = "pending"
    /\ out = NoOut

\* a pass that discards only the words shorter than the slot
NodeConsistentShorter(var, dom) == dom \ {word \in dom : Len(word) < SlotLength(var)}

\* ---- enforce_node_consistency ----
NodeConsistent(var, dom) == dom \ {word \in dom : Len(word) # SlotLength(var)}

EnforceNodeConsistency ==
    /\ pc = "node"
    /\ domains' = [var \in Variables |-> NodeConsistent(var, domains[var])]
    /\ pc' = "ac3init"
    /\ UNCHANGED <<crossword, arcs, ac3ret, domOrder, assignment, stack, result, rev, ret, cres, out>>

\* a scan that takes only the same word as support (i == j for i != j)
ReviseRemoveSameWord(dom, x, y) ==
    LET v1 == Overlaps(x, y)[1]
        v2 == Overlaps(x, y)[2]
    IN  {i \in dom[x] : ~ \E j \in dom[y] : i = j /\ i[v1 + 1] = j[v2 + 1]}

\* a scan that lets a word support itself (no i != j test)
ReviseRemoveAnyWord(dom, x, y) ==
    LET v1 == Overlaps(x, y)[1]
        v2 == Overlaps(x, y)[2]
    IN  {i \in dom[x] : ~ \E j \in dom[y] : i[v1 + 1] = j[v2 + 1]}

\* ---- revise(x, y) ----
\* the words of domains[x] the scan marks: no j in domains[y] with i != j and i[v1] == j[v2]
ReviseRemove(dom, x, y) ==
    LET v1 == Overlaps(x, y)[1]
        v2 == Overlaps(x, y)[2]
    IN  {i \in dom[x] : ~ \E j \in dom[y] : i # j /\ i[v1 + 1] = j[v2 + 1]}

\* a revise that reports a revision for every pair of overlapping slots
ReviseAlwaysRevised(dom, x, y) ==
    IF Overlaps(x, y) # NoOverlap
    THEN [domains |-> [dom EXCEPT ![x] = dom[x] \ ReviseRemove(dom, x, y)], revised |-> TRUE]
    ELSE [domains |-> dom, revised |-> FALSE]

\* a revise that also prunes domains[y] against domains[x]
ReviseBoth(dom, x, y) ==
    IF Overlaps(x, y) # NoOverlap /\ ReviseRemove(dom, x, y) # {}
    THEN [domains |-> [dom EXCEPT ![x] = dom[x] \ ReviseRemove(dom, x, y),
                                  ![y] = dom[y] \ ReviseRemove(dom, y, x)],
          revised |-> TRUE]
    ELSE [domains |-> dom, revised |-> FALSE]

\* the domains after revise(x, y) and the value it returns
Revise(dom, x, y) ==
    IF Overlaps(x, y) # NoOverlap /\ ReviseRemove(dom, x, y) # {}
    THEN [domains |-> [dom EXCEPT ![x] = dom[x] \ ReviseRemove(dom, x, y)], revised |-> TRUE]
    ELSE [domains |-> dom, revised |-> FALSE]

\* an initial deque with each pair of neighbors in one direction only
ArcsFromForward(v1) ==
    {[i \in 1..Len(q) |-> <<v1, q[i]>>] : q \in Perms({v \in Neighbors(v1) : v > v1})}

\* ---- ac3(arcs=None) ----
\* the arcs (v1, v2), v2 in neighbors(v1), in an iteration order of the set neighbors(v1)
ArcsFrom(v1) == {[i \in 1..Len(q) |-> <<v1, q[i]>>] : q \in Perms(Neighbors(v1))}

RECURSIVE InitialArcs(_)
\* the deque built by the nested loop over crossword.variables from slot v1 on
InitialArcs(v1) ==
    IF v1 \notin Variables THEN {<<>>}
    ELSE {a \o r : a \in ArcsFrom(v1), r \in InitialArcs(v1 + 1)}

Ac3Init ==
    /\ pc = "ac3init"
    /\ arcs' \in InitialArcs(1)
    /\ pc' = "ac3"
    /\ UNCHANGED <<crossword, domains, ac3ret, domOrder, assignment, stack, result, rev, ret, cres, out>>

\* an ac3 that requeues nothing after a revision
RequeueNothing(x, y) == {<<>>}

\* the arcs (z, x), z in neighbors(x) - {y}, in an iteration order of that set
Requeue(x, y) == {[i \in 1..Len(q) |-> <<q[i], x>>] : q \in Perms(Neighbors(x) \ {y})}

\* one turn of the while loop: pop an arc, revise, fail on an empty domain or requeue
Ac3Step ==
    /\ pc = "ac3"
    /\ arcs # <<>>
    /\ LET x == Head(arcs)[1]
           y == Head(arcs)[2]
           r == Revise(domains, x, y)
       IN  /\ domains' = r.domains
           /\ rev' = [called |-> TRUE, x |-> x, y |-> y, before |-> domains,
                      after |-> r.domains, revised |-> r.revised]
           /\ IF r.revised /\ Cardinality(r.domains[x]) = 0
              THEN /\ ac3ret' = "False"
                   /\ pc' = "bt_call"
                   /\ arcs' = Tail(arcs)
              ELSE /\ ac3ret' = ac3ret
                   /\ pc' = pc
                   /\ IF r.revised
                      THEN \E more \in Requeue(x, y) : arcs' = Tail(arcs) \o more
                      ELSE arcs' = Tail(arcs)
    /\ UNCHANGED <<crossword, domOrder, assignment, stack, result, ret, cres, out>>

\* the while loop ends on an empty deque: return True; solve() goes on to backtrack(dict())
Ac3Return ==
    /\ pc = "ac3"
    /\ arcs = <<>>
    /\ ac3ret' = "True"
    /\ pc' = "bt_call"
    /\ UNCHANGED <<crossword, domains, arcs, domOrder, assignment, stack, result, rev, ret, cres, out>>

\* ---- the assignment dict (insertion ordered) ----
Keys(asg) == {asg[k][1] : k \in 1..Len(asg)}

\* assignment[var] = value: a new key goes last, a key already there keeps its place
Bind(asg, var, value) ==
    IF var \in Keys(asg)
    THEN [k \in 1..Len(asg) |-> IF asg[k][1] = var THEN <<var, value>> ELSE asg[k]]
    ELSE Append(asg, <<var, value>>)

\* assignment.pop(var)
Unbind(asg, var) ==
    LET keep(e) == e[1] # var IN SelectSeq(asg, keep)

\* ---- assignment_complete ----
AssignmentComplete(asg) == \A variable \in Variables : variable \in Keys(asg)

\* a consistent that does not compare the letters of crossing slots
ConsistentNoOverlapTest(asg) ==
    IF \E k \in 1..Len(asg) : SlotLength(asg[k][1]) # Len(asg[k][2]) THEN "False"
    ELSE IF \E k, m \in 1..Len(asg) : k # m /\ asg[k][2] = asg[m][2] THEN "False"
    ELSE "True"

\* a consistent that does not compare the words of two slots
ConsistentNoDuplicateTest(asg) ==
    IF \E k \in 1..Len(asg) : SlotLength(asg[k][1]) # Len(asg[k][2]) THEN "False"
    ELSE IF \E k, m \in 1..Len(asg) :
               /\ k # m
               /\ Overlaps(asg[k][1], asg[m][1]) # NoOverlap
               /\ asg[k][2][Overlaps(asg[k][1], asg[m][1])[1] + 1]
                     # asg[m][2][Overlaps(asg[k][1], asg[m][1])[2] + 1]
         THEN "False"
         ELSE "True"

\* ---- consistent(assignment) ----
RECURSIVE ConsistentInner(_, _, _)
\* the inner loop of consistent for the k-th item, from the m-th item on:
\* "ok" when it runs through, else the value returned or the exception raised
ConsistentInner(asg, k, m) ==
    IF m > Len(asg) THEN "ok"
    ELSE LET x == asg[k][1]
             i == asg[k][2]
             y == asg[m][1]
             j == asg[m][2]
         IN  IF x = y THEN ConsistentInner(asg, k, m + 1)
             ELSE IF i = j THEN "False"
             ELSE IF Overlaps(x, y) = NoOverlap THEN ConsistentInner(asg, k, m + 1)
             ELSE LET a == Overlaps(x, y)[1]
                      b == Overlaps(x, y)[2]
                  IN  IF a >= Len(i) \/ b >= Len(j) THEN "IndexError"
                      ELSE IF i[a + 1] # j[b + 1] THEN "False"
                      ELSE ConsistentInner(asg, k, m + 1)

RECURSIVE ConsistentFrom(_, _)
\* the outer loop of consistent from the k-th item on
ConsistentFrom(asg, k) ==
    IF k > Len(asg) THEN "True"
    ELSE IF SlotLength(asg[k][1]) # Len(asg[k][2]) THEN "False"
    ELSE LET r == ConsistentInner(asg, k, 1)
         IN  IF r = "ok" THEN ConsistentFrom(asg, k + 1) ELSE r

\* "True", "False", or "IndexError" when i[a] != j[b] indexes past the end of a word
Consistent(asg) == ConsistentFrom(asg, 1)

\* ---- select_unassigned_variable ----
NoVariable == 0

\* a sort key (x[1], x[2]): ties on the domain size go to the fewest neighbors
KeyBeforeLowDegree(u, v) ==
    \/ Cardinality(domains[u]) < Cardinality(domains[v])
    \/ /\ Cardinality(domains[u]) = Cardinality(domains[v])
       /\ Cardinality(Neighbors(u)) < Cardinality(Neighbors(v))

\* the sort key (x[1], -x[2]) of u comes strictly before that of v
KeyBefore(u, v) ==
    \/ Cardinality(domains[u]) < Cardinality(domains[v])
    \/ /\ Cardinality(domains[u]) = Cardinality(domains[v])
       /\ Cardinality(Neighbors(u)) > Cardinality(Neighbors(v))

\* a selection without the sort: the first unassigned slot in iteration order
SelectFirstUnassigned(asg) ==
    LET potential == Variables \ Keys(asg)
    IN  IF potential = {} THEN NoVariable
        ELSE CHOOSE v \in potential : \A u \in potential : v <= u

\* first item of the stably sorted list; the list is built in iteration order 1..n
SelectUnassignedVariable(asg) ==
    LET potential == Variables \ Keys(asg)
    IN  IF potential = {} THEN NoVariable
        ELSE CHOOSE v \in potential :
                \A u \in potential : ~ KeyBefore(u, v) /\ (KeyBefore(v, u) \/ v <= u)

\* a ruled_out that also counts the neighbors already in the assignment
RuledOutAllNeighbors(var, asg, word) ==
    Cardinality({p \in Neighbors(var) \X Pool :
                    /\ p[2] \in domains[p[1]]
                    /\ word[Overlaps(var, p[1])[1] + 1] # p[2][Overlaps(var, p[1])[2] + 1]})

\* ---- order_domain_values ----
\* ruled_out of a word: pairs (neighbor, word2), neighbor unassigned, letters differing
RuledOut(var, asg, word) ==
    Cardinality({p \in (Neighbors(var) \ Keys(asg)) \X Pool :
                    /\ p[2] \in domains[p[1]]
                    /\ word[Overlaps(var, p[1])[1] + 1] # p[2][Overlaps(var, p[1])[2] + 1]})

RECURSIVE StableSort(_, _, _)
\* list.sort(key=ruled_out) of the list q: ascending, ties keep their order in q
StableSort(var, asg, q) ==
    IF q = <<>> THEN <<>>
    ELSE LET least == CHOOSE c \in {RuledOut(var, asg, q[k]) : k \in 1..Len(q)} :
                         \A k \in 1..Len(q) : c <= RuledOut(var, asg, q[k])
             first(w) == RuledOut(var, asg, w) = least
             rest(w) == RuledOut(var, asg, w) # least
         IN  SelectSeq(q, first) \o StableSort(var, asg, SelectSeq(q, rest))

\* the list returned, given the iteration order of the set domains[var]
OrderDomainValues(var, asg, order) == StableSort(var, asg, order)

\* ---- backtrack(assignment) ----
\* a call enters: return the assignment when complete (every caller then returns
\* it too, a non-empty dict being truthy), else select var and start the for loop
BacktrackEnter ==
    /\ pc = "bt_call"
    /\ IF AssignmentComplete(assignment)
       THEN /\ result' = [kind |-> "assignment", value |-> assignment]
            /\ pc' = "done"
            /\ UNCHANGED <<stack, domOrder>>
       ELSE LET var == SelectUnassignedVariable(assignment)
            IN  /\ domOrder' \in {[domOrder EXCEPT ![var] = q] :
                                    q \in IF domOrder[var] # <<>> THEN {domOrder[var]}
                                          ELSE Perms(domains[var])}
                /\ stack' = <<[var |-> var,
                               vals |-> OrderDomainValues(var, assignment, domOrder'[var]),
                               entry |-> assignment]>> \o stack
                /\ pc' = "bt_loop"
                /\ UNCHANGED result
    /\ UNCHANGED <<crossword, domains, arcs, ac3ret, assignment, rev, ret, cres, out>>

\* a for loop turn that also narrows domains[var] to the value it binds
BacktrackTryNarrowing ==
    /\ pc = "bt_loop"
    /\ Head(stack).vals # <<>>
    /\ LET var == Head(stack).var
           value == Head(Head(stack).vals)
           bound == Bind(assignment, var, value)
           c == Consistent(bound)
       IN  /\ stack' = <<[Head(stack) EXCEPT !.vals = Tail(@)]>> \o Tail(stack)
           /\ assignment' = IF c = "False" THEN Unbind(bound, var) ELSE bound
           /\ domains' = IF c = "True" THEN [domains EXCEPT ![var] = {value}] ELSE domains
           /\ pc' = IF c = "True" THEN "bt_call" ELSE IF c = "False" THEN "bt_loop" ELSE "done"
           /\ result' = IF c \in {"True", "False"} THEN result ELSE [kind |-> c]
    /\ UNCHANGED <<crossword, arcs, ac3ret, domOrder, rev, ret, cres, out>>

\* one turn of the for loop: bind the next value; recurse when consistent, else pop var
BacktrackTry ==
    /\ pc = "bt_loop"
    /\ Head(stack).vals # <<>>
    /\ LET var == Head(stack).var
           value == Head(Head(stack).vals)
           bound == Bind(assignment, var, value)
           c == Consistent(bound)
       IN  /\ stack' = <<[Head(stack) EXCEPT !.vals = Tail(@)]>> \o Tail(stack)
           /\ assignment' = IF c = "False" THEN Unbind(bound, var) ELSE bound
           /\ pc' = IF c = "True" THEN "bt_call" ELSE IF c = "False" THEN "bt_loop" ELSE "done"
           /\ result' = IF c \in {"True", "False"} THEN result ELSE [kind |-> c]
    /\ UNCHANGED <<crossword, domains, arcs, ac3ret, domOrder, rev, ret, cres, out>>

\* the for loop ran out of values: the call returns None; its caller's loop goes on
BacktrackFail ==
    /\ pc = "bt_loop"
    /\ Head(stack).vals = <<>>
    /\ ret' = [called |-> TRUE, entry |-> Head(stack).entry, exit |-> assignment]
    /\ stack' = Tail(stack)
    /\ IF Tail(stack) = <<>>
       THEN /\ result' = [kind |-> "None"]
            /\ pc' = "done"
       ELSE /\ pc' = "bt_loop"
            /\ UNCHANGED result
    /\ UNCHANGED <<crossword, domains, arcs, ac3ret, domOrder, assignment, rev, cres, out>>

\* ---- solve() ----
Next ==
    \/ EnforceNodeConsistency
    \/ Ac3Init
    \/ Ac3Step
    \/ Ac3Return
    \/ BacktrackEnter
    \/ BacktrackTry
    \/ BacktrackFail

Spec == Init /\ [][Next]_vars

\* ---- what a solution is (section 1 of the specification) ----
\* f gives every slot a vocabulary word of the slot's length, no word twice,
\* and crossing slots agree on the letter of the shared cell
IsSolution(f) ==
    /\ \A s \in Variables : Len(f[s]) = SlotLength(s)
    /\ \A s, t \in Variables : s # t => f[s] # f[t]
    /\ \A s, t \in Variables :
          (s # t /\ Overlaps(s, t) # NoOverlap) =>
             f[s][Overlaps(s, t)[1] + 1] = f[t][Overlaps(s, t)[2] + 1]

Solutions == {f \in [Variables -> crossword.words] : IsSolution(f)}

\* the dict asg binds every slot once and is a solution
IsCompleteValid(asg) ==
    /\ Len(asg) = Cardinality(Variables)
    /\ Keys(asg) = Variables
    /\ \E f \in Solutions : \A k \in 1..Len(asg) : f[asg[k][1]] = asg[k][2]

\* C1 (as stated): when the puzzle has a solution, solve() returns a complete valid
\* assignment and never the no-solution value.
C1_Completeness ==
    (pc = "done" /\ Solutions # {}) => (result.kind = "assignment" /\ IsCompleteValid(result.value))

\* C2: whatever solve() returns as an assignment binds every slot and meets the length,
\* all-different and overlap constraints; with no solution it returns None.
C2_Soundness ==
    pc = "done" =>
       /\ result.kind \in {"assignment", "None"}
       /\ result.kind = "assignment" => IsCompleteValid(result.value)
       /\ Solutions = {} => result.kind = "None"

\* C2 witness: solve() returned an assignment after at least one branch of the search failed
C2_Witness == pc = "done" /\ result.kind = "assignment" /\ ret.called /\ Len(assignment) > 1

\* C3: once ac3 has returned True, every word of every domain has, in the domain of
\* every neighbor, a different word with the same letter at the overlap.
C3_ArcConsistent ==
    ac3ret = "True" =>
       \A x \in Variables : \A y \in Neighbors(x) : \A w \in domains[x] :
          \E w2 \in domains[y] :
             w2 # w /\ w[Overlaps(x, y)[1] + 1] = w2[Overlaps(x, y)[2] + 1]

\* C3 witness: ac3 returned True after a revision that made it requeue arcs, domains non-empty
C3_Witness ==
    /\ ac3ret = "True"
    /\ \E x \in Variables : Neighbors(x) # {} /\ domains[x] # {}
                            /\ domains[x] # NodeConsistent(x, crossword.words)
    /\ \E x \in Variables : Cardinality(Neighbors(x)) > 1

\* C4 (as stated): ac3 returns True only with no domain empty, and False when a
\* domain is empty at its return, also one emptied by node consistency or of a
\* slot without neighbors.
C4_FailureDetection ==
    /\ ac3ret = "True" => \A s \in Variables : domains[s] # {}
    /\ ac3ret = "False" => \E s \in Variables : domains[s] = {}

\* C5: no valid complete assignment loses a word to node consistency or to a step of
\* ac3, so ac3 returns False only for a puzzle without solution.
C5_NoSolutionPruned ==
    /\ \A f \in Solutions : \A s \in Variables : f[s] \in domains[s]
    /\ ac3ret = "False" => Solutions = {}

\* C5 witness: a revise call removed words from the domains of a puzzle that has a solution
C5_Witness == Solutions # {} /\ rev.called /\ rev.revised /\ pc = "ac3"

\* C7: right after enforce_node_consistency each domain is exactly the vocabulary
\* words of the slot's length.
C7_NodeConsistency ==
    pc = "ac3init" =>
       \A s \in Variables :
          /\ \A w \in domains[s] : Len(w) = SlotLength(s)
          /\ \A w \in crossword.words \ domains[s] : Len(w) # SlotLength(s)
          /\ domains[s] \subseteq crossword.words

\* C7 witness: the pass removed a longer and a shorter word and kept one
C7_Witness ==
    /\ pc = "ac3init"
    /\ \E s \in Variables :
          /\ domains[s] # {}
          /\ \E w \in crossword.words \ domains[s] : Len(w) < SlotLength(s)
    /\ \E s \in Variables : \E w \in crossword.words \ domains[s] : Len(w) > SlotLength(s)

\* C8: after ac3 returned False the search binds nothing and solve() returns None.
C8_PropagationFailure ==
    ac3ret = "False" =>
       /\ assignment = <<>>
       /\ result.kind # "assignment"
       /\ pc = "done" => result.kind = "None"

\* C8 witness: ac3 returned False on a puzzle where another slot still has words, and solve() is done
C8_Witness ==
    /\ ac3ret = "False"
    /\ pc = "done"
    /\ result.kind = "None"
    /\ \E s \in Variables : domains[s] # {}

\* C9 (as stated): a backtrack call that returns failure leaves the assignment with
\* exactly the bindings it had when the call was entered.
C9_FailureRestores == ret.called => ret.exit = ret.entry

\* C10: revise(x, y) on overlapping slots leaves in domain(x) exactly the words with a
\* different, letter-matching word in domain(y), and returns true iff it removed a word.
C10_ReviseResult ==
    (rev.called /\ Overlaps(rev.x, rev.y) # NoOverlap) =>
       /\ rev.after[rev.x] =
             {i \in rev.before[rev.x] :
                 \E j \in rev.before[rev.y] :
                    i # j /\ i[Overlaps(rev.x, rev.y)[1] + 1] = j[Overlaps(rev.x, rev.y)[2] + 1]}
       /\ rev.revised <=> rev.after[rev.x] # rev.before[rev.x]

\* C10 witness: a revise call removed some words of domain(x) and kept others
C10_Witness ==
    /\ rev.called
    /\ rev.revised
    /\ rev.after[rev.x] # {}
    /\ \E i \in rev.before[rev.x] : i \in rev.before[rev.y] /\ i \notin rev.after[rev.x]

\* ---- consistent(assignment) called on its own ----
\* every dict over the slots of the puzzle: distinct keys in any insertion order,
\* words of any length
Assignments(n) ==
    UNION {{[k \in 1..Len(q) |-> <<q[k], w[k]>>] : w \in [1..Len(q) -> Pool]} :
           q \in UNION {Perms(S) : S \in SUBSET (1..n)}}

InitConsistent ==
    /\ \E n \in 1..MaxSlots : \E len \in [1..n -> 1..MaxLen] :
          \E ov \in OverlapTables(n, len) : \E asg \in Assignments(n) :
             /\ crossword = [variables |-> 1..n, length |-> len, overlaps |-> ov, words |-> Pool]
             /\ assignment = asg
    /\ domains = [var \in crossword.variables |-> crossword.words]
    /\ pc = "consistent"
    /\ arcs = <<>>
    /\ ac3ret = "pending"
    /\ domOrder = [var \in crossword.variables |-> <<>>]
    /\ stack = <<>>
    /\ result = [kind |-> "pending"]
    /\ rev = NoRev
    /\ ret = NoRet
    /\ cres = "pending"
    /\ out = NoOut

\* the call consistent(assignment): it only reads the dict
ConsistentCall ==
    /\ pc = "consistent"
    /\ cres' = Consistent(assignment)
    /\ pc' = "checked"
    /\ UNCHANGED <<crossword, domains, arcs, ac3ret, domOrder, assignment, stack, result, rev, ret, out>>

NextConsistent == ConsistentCall

SpecConsistent == InitConsistent /\ [][NextConsistent]_vars

\* the assigned words have their slots' lengths, differ pairwise, and agree where
\* two assigned slots cross
PartialValid(asg) ==
    /\ \A k \in 1..Len(asg) : Len(asg[k][2]) = SlotLength(asg[k][1])
    /\ \A k, m \in 1..Len(asg) : k # m => asg[k][2] # asg[m][2]
    /\ \A k, m \in 1..Len(asg) :
          (k # m /\ Overlaps(asg[k][1], asg[m][1]) # NoOverlap) =>
             asg[k][2][Overlaps(asg[k][1], asg[m][1])[1] + 1]
                = asg[m][2][Overlaps(asg[k][1], asg[m][1])[2] + 1]

\* C6 (as stated): for every partial assignment, words of any length, consistent
\* returns a boolean, true exactly for correct lengths, no duplicate and matching
\* overlaps, and false (not an error) otherwise.
C6_ConsistentCorrect ==
    pc = "checked" =>
       /\ cres \in {"True", "False"}
       /\ cres = "True" <=> PartialValid(assignment)

\* ---- revise(x, y) called on its own ----
\* a call of revise on any two distinct slots, overlapping or not, on the domains as
\* node consistency left them or as ac3 has pruned them so far
ReviseCall ==
    /\ pc \in {"ac3init", "ac3"}
    /\ \E x \in Variables : \E y \in Variables \ {x} :
          LET r == Revise(domains, x, y)
          IN  /\ domains' = r.domains
              /\ rev' = [called |-> TRUE, x |-> x, y |-> y, before |-> domains,
                         after |-> r.domains, revised |-> r.revised]
    /\ pc' = "called"
    /\ UNCHANGED <<crossword, arcs, ac3ret, domOrder, assignment, stack, result, ret, cres, out>>

NextRevise ==
    \/ EnforceNodeConsistency
    \/ Ac3Init
    \/ Ac3Step
    \/ Ac3Return
    \/ ReviseCall

SpecRevise == Init /\ [][NextRevise]_vars

\* C11: revise(x, y) changes no domain but domain(x), and for slots that do not
\* overlap it returns false and changes no domain at all.
C11_ReviseFrame ==
    rev.called =>
       /\ \A s \in Variables \ {rev.x} : rev.after[s] = rev.before[s]
       /\ Overlaps(rev.x, rev.y) = NoOverlap => (~ rev.revised /\ rev.after = rev.before)
       /\ domains = rev.after

\* C11 witness: revise was called on two slots that do not overlap, both with words,
\* where x has a neighbor
C11_Witness ==
    /\ pc = "called"
    /\ rev.called
    /\ Overlaps(rev.x, rev.y) = NoOverlap
    /\ rev.before[rev.x] # {}
    /\ rev.before[rev.y] # {}
    /\ Neighbors(rev.x) # {}

\* ---- the arc-consistent domains, computed without a worklist ----
\* the domains solve() hands to ac3: the vocabulary words of each slot's length
StartDomains == [s \in Variables |-> {w \in crossword.words : Len(w) = SlotLength(s)}]

\* the words of dom[x] that lack a different, letter-matching word in some neighbor's domain
Unsupported(dom, x) ==
    {w \in dom[x] :
        \E y \in Neighbors(x) :
           ~ \E w2 \in dom[y] :
                w2 # w /\ w[Overlaps(x, y)[1] + 1] = w2[Overlaps(x, y)[2] + 1]}

RECURSIVE ArcFix(_)
\* the largest arc-consistent domains inside dom
ArcFix(dom) ==
    IF \A x \in Variables : Unsupported(dom, x) = {} THEN dom
    ELSE ArcFix([x \in Variables |-> dom[x] \ Unsupported(dom, x)])

\* C12: whatever the order of the worklist, ac3(None) returns the same boolean,
\* fixed by the graph and the starting domains alone, and when it returns True
\* it leaves the same domains.
C12_OrderIndependent ==
    (ac3ret # "pending" /\ pc = "bt_call" /\ stack = <<>>) =>
       LET fix == ArcFix(StartDomains)
       IN  /\ ac3ret = "True" <=> \A s \in Variables : fix[s] = {} => StartDomains[s] = {}
           /\ ac3ret = "True" => domains = fix

\* C12 witness: ac3 returned True after pruning, on a graph whose initial worklist
\* has more than one possible order
C12_Witness ==
    /\ ac3ret = "True"
    /\ pc = "bt_call"
    /\ stack = <<>>
    /\ domains # StartDomains
    /\ \A s \in Variables : domains[s] # {}
    /\ Cardinality(InitialArcs(1)) > 1

\* ---- termination ----
\* solve() is one sequential computation: it keeps taking its next step
FairSpec == Spec /\ WF_vars(Next)

\* under that fairness solve() eventually returns
EventuallyReturns == <>(pc = "done")

RECURSIVE CallCost(_)
\* an upper bound on the steps of one backtrack call entered with d - 1 slots bound
\* by the calls above it: its entry, then for each value one turn of the loop and
\* a call one level down, then its return
CallCost(d) ==
    IF d > Cardinality(Variables) THEN 1
    ELSE 2 + Cardinality(crossword.words) * (1 + CallCost(d + 1))

RECURSIVE LoopCost(_)
\* what the active calls still owe: stack[i] is at level Len(stack) - i + 1
LoopCost(i) ==
    IF i > Len(stack) THEN 0
    ELSE 1 + Len(stack[i].vals) * (1 + CallCost(Len(stack) - i + 2)) + LoopCost(i + 1)

SumDomains == LET RECURSIVE Sum(_)
                  Sum(s) == IF s \notin Variables THEN 0
                            ELSE Cardinality(domains[s]) + Sum(s + 1)
              IN  Sum(1)

\* an upper bound on the steps solve() has left
StepsLeft ==
    LET n == Cardinality(Variables)
    IN  CASE pc = "node"    -> 3 + (n + 1) * SumDomains + n * n + CallCost(1)
          [] pc = "ac3init" -> 2 + (n + 1) * SumDomains + n * n + CallCost(1)
          [] pc = "ac3"     -> 1 + (n + 1) * SumDomains + Len(arcs) + CallCost(1)
          [] pc = "bt_call" -> CallCost(Len(stack) + 1) + LoopCost(1)
          [] pc = "bt_loop" -> LoopCost(1)
          [] OTHER          -> 0

\* C13: solve() terminates: as long as it has not returned it has a next step, and
\* every step of node consistency, of the AC-3 loop and of the search lowers a bound
\* on the number of steps left.
C13_Terminates ==
    /\ [](pc # "done" => ENABLED Next)
    /\ [](pc = "done" => result.kind \in {"assignment", "None"})
    /\ [][StepsLeft' < StepsLeft]_vars

\* C13 witness: solve() returned after ac3 requeued arcs and the search backtracked
C13_Witness ==
    /\ pc = "done"
    /\ result.kind \in {"assignment", "None"}
    /\ rev.called
    /\ domains # StartDomains
    /\ ret.called
    /\ Cardinality(Variables) = MaxSlots

\* C14: no step of solve() adds a word to a domain, and from the first call of
\* backtrack on no step changes a domain.
C14_DomainsShrink ==
    [][/\ \A s \in Variables : domains'[s] \subseteq domains[s]
       /\ pc \in {"bt_call", "bt_loop"} => domains' = domains]_vars

\* C14 witness: the search is two calls deep, after a failed call, on domains that
\* node consistency and ac3 both pruned
C14_Witness ==
    /\ pc = "bt_loop"
    /\ Len(stack) > 1
    /\ ret.called
    /\ \E s \in Variables : domains[s] # StartDomains[s] /\ StartDomains[s] # crossword.words

\* ---- select_unassigned_variable(assignment) called on its own ----
\* the dicts handed to the call: any set of slots bound to vocabulary words
BoundSlots == UNION {[S -> crossword.words] : S \in SUBSET Variables}

RECURSIVE AsDict(_, _)
\* the dict with the bindings of f, inserted in the order of the slots from s on
AsDict(f, s) ==
    IF s \notin Variables THEN <<>>
    ELSE (IF s \in DOMAIN f THEN <<<<s, f[s]>>>> ELSE <<>>) \o AsDict(f, s + 1)

\* a call on the domains ac3 left
SelectCall ==
    /\ pc = "bt_call"
    /\ \E f \in BoundSlots :
          out' = [called |-> TRUE, fn |-> "select", asg |-> AsDict(f, 1),
                  value |-> SelectUnassignedVariable(AsDict(f, 1))]
    /\ pc' = "called"
    /\ UNCHANGED <<crossword, domains, arcs, ac3ret, domOrder, assignment, stack, result, rev, ret, cres>>

NextSelect ==
    \/ EnforceNodeConsistency
    \/ Ac3Init
    \/ Ac3Step
    \/ Ac3Return
    \/ SelectCall

SpecSelect == Init /\ [][NextSelect]_vars

\* C15: select_unassigned_variable returns None exactly when every slot is assigned,
\* and else an unassigned slot of the least domain size and, among the unassigned
\* slots of that size, of the greatest number of neighbors.
C15_SelectMinimal ==
    (out.called /\ out.fn = "select") =>
       LET unassigned == Variables \ Keys(out.asg)
           v == out.value
       IN  /\ v = NoVariable <=> unassigned = {}
           /\ v # NoVariable =>
                 /\ v \in unassigned
                 /\ \A u \in unassigned :
                       /\ Cardinality(domains[v]) <= Cardinality(domains[u])
                       /\ Cardinality(domains[u]) = Cardinality(domains[v]) =>
                             Cardinality(Neighbors(u)) <= Cardinality(Neighbors(v))

\* C15 witness: the slot returned ties on the domain size with an unassigned slot
\* that comes earlier in iteration order and has fewer neighbors, and a third slot is assigned
C15_Witness ==
    /\ out.called
    /\ out.fn = "select"
    /\ out.value # NoVariable
    /\ out.asg # <<>>
    /\ \E u \in Variables \ Keys(out.asg) :
          /\ u < out.value
          /\ Cardinality(domains[u]) = Cardinality(domains[out.value])
          /\ Cardinality(domains[u]) > 0
          /\ Cardinality(Neighbors(u)) < Cardinality(Neighbors(out.value))

\* ---- order_domain_values(var, assignment) called on its own ----
\* the dicts handed to the call: any set of slots other than var, as backtrack hands
\* a dict without var; the call reads only the keys (variable in neighbors), so all
\* of them are bound to one word of the vocabulary
KeyDicts(var) ==
    IF crossword.words = {} THEN {[s \in {} |-> <<>>]}
    ELSE {[s \in S |-> CHOOSE w \in crossword.words : TRUE] : S \in SUBSET (Variables \ {var})}

\* a call on the domains ac3 left, for any slot, any assigned slots and any
\* iteration order of the set domains[var]
OrderCall ==
    /\ pc = "bt_call"
    /\ \E var \in Variables : \E f \in KeyDicts(var) : \E q \in Perms(domains[var]) :
          out' = [called |-> TRUE, fn |-> "order", var |-> var, asg |-> AsDict(f, 1),
                  value |-> OrderDomainValues(var, AsDict(f, 1), q)]
    /\ pc' = "called"
    /\ UNCHANGED <<crossword, domains, arcs, ac3ret, domOrder, assignment, stack, result, rev, ret, cres>>

NextOrder ==
    \/ EnforceNodeConsistency
    \/ Ac3Init
    \/ Ac3Step
    \/ Ac3Return
    \/ OrderCall

SpecOrder == Init /\ [][NextOrder]_vars

\* the (neighbor, word2) pairs a word of var disagrees with, over the neighbors of
\* var outside the assignment
Eliminated(var, asg, w) ==
    {p \in UNION {{<<y, w2>> : w2 \in domains[y]} : y \in Neighbors(var) \ Keys(asg)} :
        w[Overlaps(var, p[1])[1] + 1] # p[2][Overlaps(var, p[1])[2] + 1]}

\* C16: order_domain_values returns every word of domain(var) exactly once, in
\* non-decreasing order of the number of (neighbor, word2) pairs the word disagrees
\* with, unassigned neighbors only.
C16_OrderAscending ==
    (out.called /\ out.fn = "order") =>
       /\ Len(out.value) = Cardinality(domains[out.var])
       /\ {out.value[k] : k \in 1..Len(out.value)} = domains[out.var]
       /\ \A k \in 1..(Len(out.value) - 1) :
             Cardinality(Eliminated(out.var, out.asg, out.value[k]))
                <= Cardinality(Eliminated(out.var, out.asg, out.value[k + 1]))

\* C16 witness: the list has words of different counts, one neighbor of var is
\* assigned and one is not, and with the assigned neighbor counted too the two
\* words would not be in ascending order
C16_Witness ==
    /\ out.called
    /\ out.fn = "order"
    /\ Len(out.value) > 1
    /\ Neighbors(out.var) \cap Keys(out.asg) # {}
    /\ Neighbors(out.var) \ Keys(out.asg) # {}
    /\ \E k \in 1..(Len(out.value) - 1) :
          /\ Cardinality(Eliminated(out.var, out.asg, out.value[k]))
                < Cardinality(Eliminated(out.var, out.asg, out.value[k + 1]))
          /\ Cardinality(Eliminated(out.var, <<>>, out.value[k]))
                >= Cardinality(Eliminated(out.var, <<>>, out.value[k + 1]))

\* C17: every call of backtrack during solve() is entered with an assignment that
\* meets the length, all-different and overlap constraints, each word taken from
\* the current domain of its slot.
C17_EnteredConsistent ==
    pc = "bt_call" =>
       /\ PartialValid(assignment)
       /\ \A k \in 1..Len(assignment) : assignment[k][2] \in domains[assignment[k][1]]

\* C17 witness: a call is entered with two crossing slots bound, after an earlier
\* call returned failure and left a binding behind
C17_Witness ==
    /\ pc = "bt_call"
    /\ ret.called
    /\ ret.exit # ret.entry
    /\ \E k, m \in 1..Len(assignment) :
          k # m /\ Overlaps(assignment[k][1], assignment[m][1]) # NoOverlap

====
